---- MODULE Spec2Model ----
(***************************************************************************)
(* A model of university-syllabus-scraper.py: the retrying helpers         *)
(* (safe_send_keys, safe_select_by_text), the operator prompts, the        *)
(* dynamic-field prompter and the control flow of main.                    *)
(*                                                                         *)
(* Texts are sequences of one-character tokens.  SP is the half-width      *)
(* space, FSP the full-width space (U+3000), NL a newline.  The browser,   *)
(* the page and the operator are the environment: every call into them     *)
(* picks its outcome (a value, or an exception class) nondeterministically.*)
(***************************************************************************)
EXTENDS Integers, Sequences, FiniteSets, TLC

VARIABLES
    \* ---- safe_send_keys
    sk_pc,          \* "idle" | "loop" | "done"
    sk_max,         \* max_retries
    sk_i,           \* loop index i of range(max_retries)
    sk_attempts,    \* attempts started so far
    sk_writes,      \* completed send_keys calls
    sk_field,       \* "prev" | "cleared" | "written": content of the field
    sk_last,        \* outcome of the latest attempt
    sk_transient,   \* every failed attempt so far was stale / timeout
    sk_result,      \* "none" | "true" | "false" | "raised"
    \* ---- safe_select_by_text
    ss_pc,          \* "idle" | "loop" | "select" | "sleep" | "done"
    ss_max,         \* max_retries
    ss_target,      \* target_text
    ss_i,           \* loop index i of range(max_retries)
    ss_attempts,    \* attempts started so far
    ss_opts,        \* <<list>> read in the latest attempt, <<>> if none read
    ss_found,       \* found_text of the latest attempt: <<>> (None) | <<text>>
    ss_sel,         \* <<text>> the latest attempt issued a select for, else <<>>
    ss_selOk,       \* that select action completed
    ss_result,      \* "none" | "true" | "false" | "raised"
    ss_prior,       \* lists read before the latest attempt: "none" read |
                    \* "unspec" (each just the "unspecified" entry) | "other"
    \* ---- set_dropdown_field
    dd_pc,          \* "idle" | "search" | "poll" | "prompt" | "apply" | "done"
    dd_poll,        \* iterations of the polling loop made so far
    dd_opts,        \* options_text
    dd_shown,       \* <<list>> presented to the operator, <<>> before that
    dd_selected,    \* selected_text: <<>> before the prompt | <<text>>
    dd_result,      \* "none" | "skipped" | "applied" | "apply_failed" | "raised"
    dd_trace,       \* phases entered, in order
    \* ---- main
    pc,             \* position in main
    year_in,        \* <<input>> last typed at the year prompt, <<>> before
    in_year,        \* in_year
    target_campus,  \* target_campus
    target_dept,    \* target_dept
    started,        \* the browser session exists
    year_ok,        \* result of the year input: "none" | "true" | "false"
    campus_ok,      \* result of the campus selection: "none" | "true" | "false"
    dept_ok,        \* success (department selection): "none" | "true" | "false"
    field_idx,      \* dynamic fields handled so far
    field_bad,      \* some dynamic field was skipped or failed to apply
    table,          \* rows of the result table, each a sequence of td texts
    row_idx,        \* rows of the table handled so far
    current_data,   \* current_data
    csv,            \* <<>> | <<[name, rows]>>: the file written
    events,         \* what the session did, in order
    exc,            \* step whose exception left its try block, "none" if none
    abort,          \* "none" | "menu" | "year": the early return taken
    raised,         \* an exception leaves main
    \* ---- ask_user_selection, called on its own
    ask_pc,         \* "idle" | "prompt" | "done" | "raised"
    ask_opts,       \* options_list
    ask_val,        \* <<val>> last typed at the prompt, <<>> before
    ask_ret         \* <<option>> returned, <<>> before

sk_vars == <<sk_pc, sk_max, sk_i, sk_attempts, sk_writes, sk_field, sk_last,
             sk_transient, sk_result>>
dd_vars == <<dd_pc, dd_poll, dd_opts, dd_shown, dd_selected, dd_result, dd_trace>>
main_vars == <<pc, year_in, in_year, target_campus, target_dept, started,
               year_ok, campus_ok, dept_ok, field_idx, field_bad, table, row_idx,
               current_data, csv, events, exc, abort, raised>>
ss_vars == <<ss_pc, ss_max, ss_target, ss_i, ss_attempts, ss_opts,
             ss_found, ss_sel, ss_selOk, ss_result, ss_prior>>
ask_vars == <<ask_pc, ask_opts, ask_val, ask_ret>>

\* ------------------------------------------------------------------ bounds
MaxOpts == 2

\* --------------------------------------------------------- program constants
DefaultMaxRetries == 5

\* ------------------------------------------------------------------- texts
SP == " "
FSP == "FSP"
NL == "NL"

Unspecified == <<"u">>
CompSci == <<"c", "s">>
EmptyText == <<>>

DEPT_OPTIONS == <<Unspecified, CompSci, EmptyText>>
CAMPUS_OPTIONS == <<Unspecified, EmptyText>>

\* Display texts an option of the page may carry.
OptionTexts == {EmptyText, Unspecified, <<"c", SP, "s">>, <<"c", FSP, "s">>}

\* Targets handed to the selector: the configured names, a partial name and
\* a name holding a space.
Targets == {EmptyText, Unspecified, CompSci, <<"s">>, <<"c", SP, "s">>}

SeqsUpTo(S, n) == UNION {[1..k -> S] : k \in 0..n}
OptionLists == SeqsUpTo(OptionTexts, MaxOpts)

Range(s) == {s[k] : k \in 1..Len(s)}
MinOf(S) == CHOOSE m \in S : \A x \in S : m <= x

\* text.replace(" ", "").replace("　", "")
StripSpaces(text) == SelectSeq(text, LAMBDA c : c \notin {SP, FSP})

\* needle in hay
Contains(hay, needle) ==
    \E k \in 0..(Len(hay) - Len(needle)) :
        SubSeq(hay, k + 1, k + Len(needle)) = needle

\* target_text in opt.text.replace(" ", "").replace("　", "")
OptionMatches(target_text, text) == Contains(StripSpaces(text), target_text)

\* found_text = None, at the start of the scan of every attempt.
FoundAtScanStart(previous) == <<>>

\* The scan over select.options.  opts are the texts the test of line 114
\* read.  At the first option that passes the test, `found_text = opt.text`
\* reads the text of that option once more from the page, which may have
\* rewritten it in between: stored is what that second read gives.  When no
\* option passes, found_text is left alone.
ScanOptions(target_text, opts, found0, stored) ==
    LET hits == {k \in 1..Len(opts) : OptionMatches(target_text, opts[k])}
    IN  IF hits = {} THEN found0 ELSE <<stored>>

\* `if found_text:` -- None and the empty string are both falsy.
Truthy(found) == found # <<>> /\ found[1] # <<>>

\* ------------------------------------------------------------ safe_send_keys
\* What an attempt of safe_send_keys can meet: the wait, clear() or
\* send_keys() raising, or all three completing.
SK_Outcomes ==
    {[step |-> "none", kind |-> "ok"],
     [step |-> "wait", kind |-> "timeout"],
     [step |-> "wait", kind |-> "error"],
     [step |-> "clear", kind |-> "stale"],
     [step |-> "clear", kind |-> "error"],
     [step |-> "send", kind |-> "stale"],
     [step |-> "send", kind |-> "error"]}

\* A plausible slip: the generic handler is missing, so the error escapes.
SK_OnFailureNoGeneric(kind) ==
    IF kind \in {"stale", "timeout"} THEN "retry" ELSE "raise"

\* except (StaleElementReferenceException, TimeoutException): sleep(2)
\* except Exception: print, sleep(1).  Either way the loop goes on.
SK_OnFailure(kind) ==
    IF kind \in {"stale", "timeout"} THEN "retry" ELSE "retry"

\* A plausible slip: no return after the write, the loop goes on.
SK_OnSuccessContinue == "continue"

\* print; return True
SK_OnSuccess == "return"

SK_FieldAfter(field, o) ==
    CASE o.kind = "ok" -> "written"
      [] o.step = "send" -> "cleared"
      [] OTHER -> field

SK_Call(max_retries) ==
    /\ sk_pc' = "loop"
    /\ sk_max' = max_retries
    /\ sk_i' = 0
    /\ sk_attempts' = 0
    /\ sk_writes' = 0
    /\ sk_field' = "prev"
    /\ sk_last' = "none"
    /\ sk_transient' = TRUE
    /\ sk_result' = "none"

\* One iteration of `for i in range(max_retries)`.
SK_Attempt ==
    /\ sk_pc = "loop"
    /\ sk_i < sk_max
    /\ \E o \in SK_Outcomes :
        /\ sk_attempts' = sk_attempts + 1
        /\ sk_last' = o.kind
        /\ sk_field' = SK_FieldAfter(sk_field, o)
        /\ IF o.kind = "ok"
           THEN /\ sk_writes' = sk_writes + 1
                /\ sk_transient' = sk_transient
                /\ IF SK_OnSuccess = "return"
                   THEN sk_pc' = "done" /\ sk_result' = "true" /\ sk_i' = sk_i
                   ELSE sk_pc' = "loop" /\ sk_result' = sk_result /\ sk_i' = sk_i + 1
           ELSE /\ sk_writes' = sk_writes
                /\ sk_transient' = (sk_transient /\ o.kind \in {"stale", "timeout"})
                /\ IF SK_OnFailure(o.kind) = "retry"
                   THEN sk_pc' = "loop" /\ sk_result' = sk_result /\ sk_i' = sk_i + 1
                   ELSE sk_pc' = "done" /\ sk_result' = "raised" /\ sk_i' = sk_i
    /\ sk_max' = sk_max

\* The loop is over: print the error, return False.
SK_Exhausted ==
    /\ sk_pc = "loop"
    /\ sk_i >= sk_max
    /\ sk_pc' = "done"
    /\ sk_result' = "false"
    /\ UNCHANGED <<sk_max, sk_i, sk_attempts, sk_writes, sk_field, sk_last,
                   sk_transient>>

\* -------------------------------------------------------- safe_select_by_text
SS_Call(target_text, max_retries) ==
    /\ ss_pc' = "loop"
    /\ ss_max' = max_retries
    /\ ss_target' = target_text
    /\ ss_i' = 0
    /\ ss_attempts' = 0
    /\ ss_opts' = <<>>
    /\ ss_found' = <<>>
    /\ ss_sel' = <<>>
    /\ ss_selOk' = FALSE
    /\ ss_result' = "none"
    /\ ss_prior' = "none"

\* A plausible slip: only the stale reference and the timeout are caught,
\* so another exception leaves the function.
SS_OnExceptionRaises == "raise"

\* except Exception: time.sleep(1), and the loop goes on.
SS_OnException == "sleep"

\* An iteration of `for i in range(max_retries)` begins: the wait for the
\* element, Select(elem), and the scan of select.options.  When the wait or
\* the read raises, `except Exception` takes over: the wait and Select(elem)
\* raise before `found_text = None`, so found_text is what the iteration
\* before left; select.options and opt.text raise after it.
SS_Read ==
    /\ ss_pc = "loop"
    /\ ss_i < ss_max
    /\ ss_attempts' = ss_attempts + 1
    /\ \/ /\ ss_opts' = <<>>
          /\ ss_pc' = IF SS_OnException = "sleep" THEN "sleep" ELSE "done"
          /\ ss_result' = IF SS_OnException = "sleep" THEN ss_result ELSE "raised"
          /\ \E o \in {"wait", "read"} :
                ss_found' = IF o = "wait" THEN ss_found ELSE FoundAtScanStart(ss_found)
       \/ \E current \in OptionLists, stored \in OptionTexts :
            LET found == ScanOptions(ss_target, current,
                                     FoundAtScanStart(ss_found), stored)
            IN  /\ ss_opts' = <<current>>
                /\ ss_found' = found
                /\ ss_pc' = IF Truthy(found) THEN "select" ELSE "sleep"
                /\ UNCHANGED ss_result
    /\ UNCHANGED <<ss_max, ss_target, ss_i, ss_sel, ss_selOk, ss_prior>>

\* if found_text: select.select_by_visible_text(found_text); return True.
\* When the call raises, `except Exception` takes over.
SS_Select ==
    /\ ss_pc = "select"
    /\ ss_sel' = ss_found
    /\ \E o \in {"ok", "error"} :
        IF o = "ok"
        THEN ss_selOk' = TRUE /\ ss_pc' = "done" /\ ss_result' = "true"
        ELSE /\ ss_selOk' = FALSE
             /\ ss_pc' = IF SS_OnException = "sleep" THEN "sleep" ELSE "done"
             /\ ss_result' = IF SS_OnException = "sleep" THEN ss_result ELSE "raised"
    /\ UNCHANGED <<ss_max, ss_target, ss_i, ss_attempts, ss_opts, ss_found, ss_prior>>

\* A plausible slip: a hand-written retry loop that does not count the
\* attempt that found nothing.
SS_NextIndexStuck(i) == i

\* `for i in range(max_retries)`: the index after an iteration.
SS_NextIndex(i) == i + 1

\* time.sleep(1), in the else branch or in the handler; the next iteration
\* locates the element and reads its options anew.
SS_Sleep ==
    /\ ss_pc = "sleep"
    /\ ss_pc' = "loop"
    /\ ss_i' = SS_NextIndex(ss_i)
    /\ ss_opts' = <<>>
    /\ ss_sel' = <<>>
    /\ ss_selOk' = FALSE
    /\ ss_prior' =
           IF ss_opts = <<>> THEN ss_prior
           ELSE IF ss_opts[1] = <<Unspecified>> /\ ss_prior # "other" THEN "unspec"
           ELSE "other"
    /\ UNCHANGED <<ss_max, ss_target, ss_attempts, ss_found, ss_result>>

\* The loop is over: return False.
SS_Exhausted ==
    /\ ss_pc = "loop"
    /\ ss_i >= ss_max
    /\ ss_pc' = "done"
    /\ ss_result' = "false"
    /\ UNCHANGED <<ss_max, ss_target, ss_i, ss_attempts, ss_opts, ss_found,
                   ss_sel, ss_selOk, ss_prior>>

\* ------------------------------------------------------- operator prompts
WhiteSpace == {SP, FSP, NL}
MaxOf(S) == CHOOSE m \in S : \A x \in S : m >= x

\* str.strip(): leading and trailing whitespace removed.
Strip(text) ==
    LET keep == {k \in 1..Len(text) : text[k] \notin WhiteSpace}
    IN  IF keep = {} THEN <<>> ELSE SubSeq(text, MinOf(keep), MaxOf(keep))

\* Characters str.isdigit() and int() take as digits, with their values
\* (FW2 is the full-width digit two).
DigitVal == ("0" :> 0) @@ ("1" :> 1) @@ ("2" :> 2) @@ ("3" :> 3) @@ ("5" :> 5)
            @@ ("9" :> 9) @@ ("FW2" :> 2)

\* str.isdigit(): non-empty and every character a digit.
IsDigitStr(s) == s # <<>> /\ \A k \in 1..Len(s) : s[k] \in DOMAIN DigitVal

RECURSIVE DecValue(_)
DecValue(d) ==
    IF d = <<>> THEN 0
    ELSE 10 * DecValue(SubSeq(d, 1, Len(d) - 1)) + DigitVal[d[Len(d)]]

\* int(val): <<n>>, or <<>> for ValueError.  Surrounding whitespace and one
\* sign are allowed.
ParseInt(val) ==
    LET t == Strip(val)
        signed == t # <<>> /\ t[1] \in {"+", "-"}
        body == IF signed THEN Tail(t) ELSE t
    IN  IF ~IsDigitStr(body) THEN <<>>
        ELSE IF signed /\ t[1] = "-" THEN <<0 - DecValue(body)>>
        ELSE <<DecValue(body)>>

\* What the operator may type at an index prompt.
UserInputs == {<<>>, <<"0">>, <<"1">>, <<"2">>, <<"3">>, <<"-", "1">>,
               <<"+", "1">>, <<SP, "1">>, <<"x">>, <<SP>>, <<"1", "0">>}

\* A plausible slip: only the upper bound of the index is tested, so a
\* negative index counts from the end of the list.
AskUserSelectionNoLowerBound(options_list, val) ==
    IF val = <<>> THEN <<options_list[1]>>
    ELSE LET idx == ParseInt(val)
         IN  IF idx # <<>> /\ idx[1] < Len(options_list)
                          /\ 0 - idx[1] <= Len(options_list)
             THEN <<options_list[IF idx[1] >= 0 THEN idx[1] + 1
                                 ELSE Len(options_list) + idx[1] + 1]>>
             ELSE <<>>

\* One pass of the `while True` of ask_user_selection on input val:
\* <<option>> when it returns, <<>> when it prints the error and asks again.
AskUserSelection(options_list, val) ==
    IF val = <<>> THEN <<options_list[1]>>
    ELSE LET idx == ParseInt(val)
         IN  IF idx # <<>> /\ 0 <= idx[1] /\ idx[1] < Len(options_list)
             THEN <<options_list[idx[1] + 1]>>
             ELSE <<>>

\* ask_user_selection called on its own: one input of the operator.
\* input() raising is outside the try of the loop and leaves the function.
ASK_Input ==
    /\ ask_pc = "prompt"
    /\ \/ \E val \in UserInputs :
            LET r == AskUserSelection(ask_opts, val)
            IN  /\ ask_val' = <<val>>
                /\ ask_ret' = r
                /\ ask_pc' = IF r = <<>> THEN "prompt" ELSE "done"
       \/ /\ ask_pc' = "raised"
          /\ UNCHANGED <<ask_val, ask_ret>>
    /\ UNCHANGED ask_opts

\* What the operator may type at the year prompt.
YearInputs == {<<>>, <<"2", "0", "2", "5">>, <<"2", "5">>,
               <<"2", "0", "2", "5", "0">>, <<"a", "b", "c", "d">>,
               <<"2", "0", "a", "5">>, <<SP>>, <<"-", "2", "0", "2">>,
               <<"FW2", "0", "2", "5">>}

DefaultYear == <<"2", "0", "2", "5">>

\* A plausible slip: the length test is dropped.
YearAcceptedAnyLength(s) == IsDigitStr(s)

\* in_year.isdigit() and len(in_year) == 4
YearAccepted(s) == IsDigitStr(s) /\ Len(s) = 4

\* -------------------------------------------------------- set_dropdown_field
PollIterations == 10
ExtraFields == 4

DD_Idle ==
    /\ dd_pc' = "idle" /\ dd_poll' = 0 /\ dd_opts' = <<>> /\ dd_shown' = <<>>
    /\ dd_selected' = <<>> /\ dd_result' = "none" /\ dd_trace' = <<>>

DD_Call ==
    /\ dd_pc' = "search" /\ dd_poll' = 0 /\ dd_opts' = <<>> /\ dd_shown' = <<>>
    /\ dd_selected' = <<>> /\ dd_result' = "none" /\ dd_trace' = <<"search">>

\* A plausible slip: the handler of the timeout prints and does not return,
\* so the function goes on to the polling loop.
DD_AfterTimeoutGoesOn == "poll"

\* except TimeoutException: print; return
DD_AfterTimeout == "done"

\* 1. wait.until(presence_of_element_located): only TimeoutException is
\* caught here; any other exception leaves the function.
DD_Search ==
    /\ dd_pc = "search"
    /\ \E o \in {"found", "timeout", "error"} :
        CASE o = "found" ->
                /\ dd_pc' = "poll"
                /\ dd_trace' = Append(dd_trace, "poll")
                /\ UNCHANGED dd_result
          [] o = "timeout" ->
                /\ dd_pc' = DD_AfterTimeout
                /\ dd_result' = "skipped"
                /\ UNCHANGED dd_trace
          [] OTHER ->
                /\ dd_pc' = "done"
                /\ dd_result' = "raised"
                /\ UNCHANGED dd_trace
    /\ UNCHANGED <<dd_poll, dd_opts, dd_shown, dd_selected>>

\* A plausible slip: no fallback, an empty list is presented as it is.
DD_PresentedRaw(options_text) == options_text

\* `if not options_text: options_text = ["指示なし"]`
DD_Presented(options_text) ==
    IF options_text = <<>> THEN <<Unspecified>> ELSE options_text

\* 3. Leaving the polling loop: the fallback, then ask_user_selection
\* prints the options.  The loop counter is not used past this point.
DD_Present(options_text) ==
    /\ dd_opts' = DD_Presented(options_text)
    /\ dd_shown' = <<DD_Presented(options_text)>>
    /\ dd_poll' = 0
    /\ dd_pc' = "prompt"
    /\ dd_trace' = Append(dd_trace, "prompt")

\* 2. One iteration of `for _ in range(10)`: a read that raises keeps the
\* options_text of the read before it; a read of more than one option
\* breaks out of the loop.
DD_Poll ==
    /\ dd_pc = "poll"
    /\ dd_poll < PollIterations
    /\ \/ \E current \in OptionLists :
            IF Len(current) > 1
            THEN DD_Present(current)
            ELSE /\ dd_opts' = current
                 /\ dd_poll' = dd_poll + 1
                 /\ UNCHANGED <<dd_pc, dd_shown, dd_trace>>
       \/ /\ dd_poll' = dd_poll + 1
          /\ UNCHANGED <<dd_opts, dd_pc, dd_shown, dd_trace>>
    /\ UNCHANGED <<dd_selected, dd_result>>

\* The polling loop ran out.
DD_PollEnd ==
    /\ dd_pc = "poll"
    /\ dd_poll >= PollIterations
    /\ DD_Present(dd_opts)
    /\ UNCHANGED <<dd_selected, dd_result>>

\* The `while True` of ask_user_selection: one input of the operator.
\* input() raising (EOFError) is outside every try of the function.
DD_Prompt ==
    /\ dd_pc = "prompt"
    /\ \/ \E val \in UserInputs :
            LET r == AskUserSelection(dd_opts, val)
            IN  IF r = <<>>
                THEN UNCHANGED <<dd_pc, dd_selected, dd_result, dd_trace>>
                ELSE /\ dd_selected' = r
                     /\ dd_pc' = "apply"
                     /\ dd_trace' = Append(dd_trace, "apply")
                     /\ UNCHANGED dd_result
       \/ /\ dd_pc' = "done"
          /\ dd_result' = "raised"
          /\ UNCHANGED <<dd_selected, dd_trace>>
    /\ UNCHANGED <<dd_poll, dd_opts, dd_shown>>

\* A plausible slip: the apply is not guarded, its exception leaves the
\* function.
DD_OnApplyErrorRaises == "raised"

\* except Exception as e: print
DD_OnApplyError == "apply_failed"

\* find_element + select_by_visible_text(selected_text); an exception is
\* printed and dropped.
DD_Apply ==
    /\ dd_pc = "apply"
    /\ \E o \in {"ok", "error"} :
        dd_result' = IF o = "ok" THEN "applied" ELSE DD_OnApplyError
    /\ dd_pc' = "done"
    /\ UNCHANGED <<dd_poll, dd_opts, dd_shown, dd_selected, dd_trace>>

\* ----------------------------------------------------------- result rows
MaxRows == 2
MinCells == 7

Filler == <<"f">>

\* Rows the result table may hold, each the texts of its td cells.
RowSamples ==
    {<<Filler, Filler, Filler, <<"m", "1">>, Filler, <<"x">>>>,
     <<Filler, Filler, Filler, <<"m", "1">>, Filler, <<>>, <<"t">>>>,
     <<Filler, Filler, Filler, <<"m", "1">>, Filler, <<FSP, SP>>, <<"t">>>>,
     <<Filler, Filler, Filler, <<SP, "m", NL, "1", NL>>, Filler,
       <<SP, "x", NL>>, <<"t", SP>>>>,
     <<Filler, Filler, Filler, <<"m", "2">>, Filler, <<"y">>, <<>>, Filler>>}

Tables == SeqsUpTo(RowSamples, MaxRows)

\* text.replace("\n", "")
RemoveNewlines(text) == SelectSeq(text, LAMBDA c : c # NL)

\* A plausible slip: the subject is tested untrimmed.
RowSubjectRaw(cells) == cells[6]

\* cells[5].text.strip()
RowSubject(cells) == Strip(cells[6])

\* The body of `for row in rows`: <<record>> when the row is appended,
\* <<>> when it is passed over (continue).
ExtractRow(cells, year, dept) ==
    IF Len(cells) < MinCells THEN <<>>
    ELSE LET period == RemoveNewlines(Strip(cells[4]))
             subject == RowSubject(cells)
             teacher == Strip(cells[7])
         IN  IF subject = <<>> THEN <<>>
             ELSE <<[year |-> year, dept |-> dept, subject |-> subject,
                     teacher |-> teacher, period |-> period]>>

\* target_dept.replace("/", "").replace(" ", "")
SafeName(dept) == SelectSeq(dept, LAMBDA c : c \notin {"/", SP})

\* f"syllabus_{in_year}_{safe_name}_search.csv"
FileName(year, dept) ==
    <<"syllabus_">> \o year \o <<"_">> \o SafeName(dept) \o <<"_search.csv">>

\* ----------------------------------------------------------------------- main
user_vars == <<year_in, in_year, target_campus, target_dept>>
sel_vars == <<year_ok, campus_ok, dept_ok, field_idx, field_bad>>
data_vars == <<table, row_idx, current_data, csv>>

SK_Idle ==
    /\ sk_pc' = "idle" /\ sk_max' = 0 /\ sk_i' = 0 /\ sk_attempts' = 0
    /\ sk_writes' = 0 /\ sk_field' = "prev" /\ sk_last' = "none"
    /\ sk_transient' = TRUE /\ sk_result' = "none"

SS_Idle ==
    /\ ss_pc' = "idle" /\ ss_max' = 0 /\ ss_target' = <<>> /\ ss_i' = 0
    /\ ss_attempts' = 0 /\ ss_opts' = <<>> /\ ss_found' = <<>>
    /\ ss_sel' = <<>> /\ ss_selOk' = FALSE /\ ss_result' = "none"
    /\ ss_prior' = "none"

\* A plausible slip: no except clause, the exception goes to the cleanup.
OnSessionExceptionUncaught == "finally"

\* except Exception as e: the top-level handler of the try of main.
OnSessionException == "handler"

\* A plausible slip: the session is torn down after the try statement, not
\* in a finally clause, so a return inside the try skips it.
OnReturnSkipsCleanup == "exit"

\* `return` inside the try: control passes through the finally clause.
OnReturn == "finally"

\* A plausible slip: a screenshot that raises skips the teardown.
HandlerNextNoFinally(o) == IF o = "ok" THEN "finally" ELSE "exit"

\* After the handler, raising or not, the finally clause runs.
HandlerNext(o) == "finally"

\* A plausible slip: a failed year input is not checked.
AfterYearUnchecked(result) == "campus"

\* if not safe_send_keys(...): print; return
AfterYear(result) == IF result = "true" THEN "campus" ELSE OnReturn

\* A plausible slip: a failed selection aborts the run.
AfterSelectStrict(result, next) == IF result = "true" THEN next ELSE OnReturn

\* The result of safe_select_by_text never ends the run.
AfterSelect(result, next) == next

Raise(step) ==
    /\ exc' = step
    /\ pc' = OnSessionException

\* The year prompt: one input of the operator.  The prompts of main before
\* the browser is started are outside its try: input() raising leaves main.
M_YearPrompt ==
    /\ pc = "year"
    /\ \/ /\ \E inp \in YearInputs :
              /\ year_in' = <<inp>>
              /\ IF YearAccepted(inp)
                 THEN in_year' = inp /\ pc' = "campus_ask"
                 ELSE IF inp = <<>>
                 THEN in_year' = DefaultYear /\ pc' = "campus_ask"
                 ELSE in_year' = inp /\ pc' = "year"
          /\ UNCHANGED raised
       \/ /\ pc' = "exit"
          /\ raised' = TRUE
          /\ UNCHANGED <<year_in, in_year>>
    /\ UNCHANGED <<target_campus, target_dept, started, events, exc, abort>>
    /\ UNCHANGED <<sel_vars, data_vars, sk_vars, ss_vars, dd_vars>>
    /\ UNCHANGED ask_vars

\* target_campus = ask_user_selection("キャンパス", CAMPUS_OPTIONS)
M_AskCampus ==
    /\ pc = "campus_ask"
    /\ \/ /\ \E val \in UserInputs :
              LET r == AskUserSelection(CAMPUS_OPTIONS, val)
              IN  IF r = <<>>
                  THEN UNCHANGED <<pc, target_campus>>
                  ELSE target_campus' = r[1] /\ pc' = "dept_ask"
          /\ UNCHANGED raised
       \/ /\ pc' = "exit"
          /\ raised' = TRUE
          /\ UNCHANGED target_campus
    /\ UNCHANGED <<year_in, in_year, target_dept, started, events, exc, abort>>
    /\ UNCHANGED <<sel_vars, data_vars, sk_vars, ss_vars, dd_vars>>
    /\ UNCHANGED ask_vars

\* target_dept = ask_user_selection("学部（時間割所属）", DEPT_OPTIONS)
M_AskDept ==
    /\ pc = "dept_ask"
    /\ \/ /\ \E val \in UserInputs :
              LET r == AskUserSelection(DEPT_OPTIONS, val)
              IN  IF r = <<>>
                  THEN UNCHANGED <<pc, target_dept>>
                  ELSE target_dept' = r[1] /\ pc' = "start"
          /\ UNCHANGED raised
       \/ /\ pc' = "exit"
          /\ raised' = TRUE
          /\ UNCHANGED target_dept
    /\ UNCHANGED <<year_in, in_year, target_campus, started, events, exc, abort>>
    /\ UNCHANGED <<sel_vars, data_vars, sk_vars, ss_vars, dd_vars>>
    /\ UNCHANGED ask_vars

\* webdriver.Chrome(...): outside the try; when it raises there is no session.
M_StartBrowser ==
    /\ pc = "start"
    /\ \E o \in {"ok", "error"} :
        IF o = "ok"
        THEN /\ started' = TRUE
             /\ events' = Append(events, "start")
             /\ pc' = "login"
             /\ UNCHANGED raised
        ELSE /\ raised' = TRUE
             /\ pc' = "exit"
             /\ UNCHANGED <<started, events>>
    /\ UNCHANGED <<exc, abort>>
    /\ UNCHANGED <<user_vars, sel_vars, data_vars, sk_vars, ss_vars, dd_vars>>
    /\ UNCHANGED ask_vars

\* Login: the first click of the button has its own bare except, which tries
\* the second locator; anything else that raises leaves the try.
M_Login ==
    /\ pc = "login"
    /\ \E o \in {"ok", "second_click", "error"} :
        IF o = "error" THEN Raise("login") ELSE pc' = "menu" /\ UNCHANGED exc
    /\ UNCHANGED <<started, events, abort, raised>>
    /\ UNCHANGED <<user_vars, sel_vars, data_vars, sk_vars, ss_vars, dd_vars>>
    /\ UNCHANGED ask_vars

\* Menu navigation inside its own try: its handler prints and returns.
M_Menu ==
    /\ pc = "menu"
    /\ \E o \in {"ok", "error"} :
        IF o = "ok"
        THEN pc' = "frames" /\ UNCHANGED <<exc, abort>>
        ELSE pc' = OnReturn /\ exc' = "menu" /\ abort' = "menu"
    /\ UNCHANGED <<started, events, raised>>
    /\ UNCHANGED <<user_vars, sel_vars, data_vars, sk_vars, ss_vars, dd_vars>>
    /\ UNCHANGED ask_vars

\* Window and frame switching.
M_Frames ==
    /\ pc = "frames"
    /\ \E o \in {"ok", "error"} :
        IF o = "ok" THEN pc' = "year_set" /\ UNCHANGED exc ELSE Raise("frames")
    /\ UNCHANGED <<started, events, abort, raised>>
    /\ UNCHANGED <<user_vars, sel_vars, data_vars, sk_vars, ss_vars, dd_vars>>
    /\ UNCHANGED ask_vars

\* safe_send_keys(driver, "nendo", in_year): the call ...
M_YearCall ==
    /\ pc = "year_set"
    /\ SK_Call(DefaultMaxRetries)
    /\ events' = Append(events, "year")
    /\ pc' = "year_wait"
    /\ UNCHANGED <<started, exc, abort, raised>>
    /\ UNCHANGED <<user_vars, sel_vars, data_vars, ss_vars, dd_vars>>
    /\ UNCHANGED ask_vars

\* ... and what main does with its result.
M_YearRet ==
    /\ pc = "year_wait"
    /\ sk_pc = "done"
    /\ SK_Idle
    /\ IF sk_result = "raised"
       THEN Raise("year") /\ UNCHANGED abort
       ELSE /\ pc' = AfterYear(sk_result)
            /\ abort' = IF AfterYear(sk_result) = "campus" THEN abort ELSE "year"
            /\ UNCHANGED exc
    /\ year_ok' = sk_result
    /\ UNCHANGED <<started, events, raised, campus_ok, dept_ok, field_idx, field_bad>>
    /\ UNCHANGED <<user_vars, data_vars, ss_vars, dd_vars>>
    /\ UNCHANGED ask_vars

\* A plausible slip: the choice is tested for truthiness, so only the empty
\* name skips the selection.
SelectionWantedNonEmpty(target) == target # <<>>

\* target != "指示なし"
SelectionWanted(target) == target # Unspecified

\* if target_campus != "指示なし": safe_select_by_text(driver, "campusCd", ...)
M_Campus ==
    /\ pc = "campus"
    /\ IF SelectionWanted(target_campus)
       THEN /\ SS_Call(target_campus, DefaultMaxRetries)
            /\ events' = Append(events, "campus")
            /\ pc' = "campus_wait"
       ELSE /\ pc' = "dept"
            /\ UNCHANGED <<events, ss_vars>>
    /\ UNCHANGED <<started, exc, abort, raised>>
    /\ UNCHANGED <<user_vars, sel_vars, data_vars, sk_vars, dd_vars>>
    /\ UNCHANGED ask_vars

M_CampusRet ==
    /\ pc = "campus_wait"
    /\ ss_pc = "done"
    /\ SS_Idle
    /\ campus_ok' = ss_result
    /\ IF ss_result = "raised"
       THEN Raise("campus") /\ UNCHANGED abort
       ELSE /\ pc' = AfterSelect(ss_result, "dept")
            /\ abort' = IF AfterSelect(ss_result, "dept") = "dept"
                        THEN abort ELSE "campus"
            /\ UNCHANGED exc
    /\ UNCHANGED <<started, events, raised, year_ok, dept_ok, field_idx, field_bad>>
    /\ UNCHANGED <<user_vars, data_vars, sk_vars, dd_vars>>
    /\ UNCHANGED ask_vars

\* if target_dept != "指示なし": success = safe_select_by_text(...)
M_Dept ==
    /\ pc = "dept"
    /\ IF SelectionWanted(target_dept)
       THEN /\ SS_Call(target_dept, DefaultMaxRetries)
            /\ events' = Append(events, "dept")
            /\ pc' = "dept_wait"
       ELSE /\ pc' = "fields"
            /\ UNCHANGED <<events, ss_vars>>
    /\ UNCHANGED <<started, exc, abort, raised>>
    /\ UNCHANGED <<user_vars, sel_vars, data_vars, sk_vars, dd_vars>>
    /\ UNCHANGED ask_vars

\* if success: wait for the page to add its fields (sleep 5).
M_DeptRet ==
    /\ pc = "dept_wait"
    /\ ss_pc = "done"
    /\ SS_Idle
    /\ dept_ok' = ss_result
    /\ events' = IF ss_result = "true" THEN Append(events, "dept_pause") ELSE events
    /\ IF ss_result = "raised"
       THEN Raise("dept") /\ UNCHANGED abort
       ELSE /\ pc' = AfterSelect(ss_result, "fields")
            /\ abort' = IF AfterSelect(ss_result, "fields") = "fields"
                        THEN abort ELSE "dept"
            /\ UNCHANGED exc
    /\ UNCHANGED <<started, raised, year_ok, campus_ok, field_idx, field_bad>>
    /\ UNCHANGED <<user_vars, data_vars, sk_vars, dd_vars>>
    /\ UNCHANGED ask_vars

\* for label in extra_fields: set_dropdown_field(driver, label, wait)
M_Field ==
    /\ pc = "fields"
    /\ IF field_idx < ExtraFields
       THEN /\ DD_Call
            /\ events' = Append(events, "field")
            /\ pc' = "field_wait"
       ELSE /\ pc' = "subject"
            /\ UNCHANGED <<events, dd_vars>>
    /\ UNCHANGED <<started, exc, abort, raised>>
    /\ UNCHANGED <<user_vars, sel_vars, data_vars, sk_vars, ss_vars>>
    /\ UNCHANGED ask_vars

M_FieldRet ==
    /\ pc = "field_wait"
    /\ dd_pc = "done"
    /\ DD_Idle
    /\ IF dd_result = "raised"
       THEN Raise("field") /\ UNCHANGED <<field_idx, field_bad>>
       ELSE /\ pc' = "fields"
            /\ field_idx' = field_idx + 1
            /\ field_bad' = (field_bad \/ dd_result \in {"skipped", "apply_failed"})
            /\ UNCHANGED exc
    /\ UNCHANGED <<started, events, abort, raised, year_ok, campus_ok, dept_ok>>
    /\ UNCHANGED <<user_vars, data_vars, sk_vars, ss_vars>>
    /\ UNCHANGED ask_vars

\* sub_name = input(...): a failing send_keys is dropped (except: pass);
\* input() itself is not guarded.
M_Subject ==
    /\ pc = "subject"
    /\ \E o \in {"empty", "typed", "typed_send_fails", "input_error"} :
        IF o = "input_error" THEN Raise("subject")
        ELSE pc' = "search" /\ UNCHANGED exc
    /\ UNCHANGED <<started, events, abort, raised>>
    /\ UNCHANGED <<user_vars, sel_vars, data_vars, sk_vars, ss_vars, dd_vars>>
    /\ UNCHANGED ask_vars

\* find_element for the search button, then the scripted click.
M_Search ==
    /\ pc = "search"
    /\ \E o \in {"ok", "error"} :
        IF o = "ok"
        THEN /\ events' = Append(events, "search")
             /\ pc' = "parse"
             /\ UNCHANGED exc
        ELSE Raise("search") /\ UNCHANGED events
    /\ UNCHANGED <<started, abort, raised>>
    /\ UNCHANGED <<user_vars, sel_vars, data_vars, sk_vars, ss_vars, dd_vars>>
    /\ UNCHANGED ask_vars

\* BeautifulSoup(driver.page_source); rows = soup.select(...)
M_Parse ==
    /\ pc = "parse"
    /\ \/ /\ \E t \in Tables : table' = t
          /\ row_idx' = 0
          /\ current_data' = <<>>
          /\ pc' = "rows"
          /\ UNCHANGED exc
       \/ /\ Raise("parse")
          /\ UNCHANGED <<table, row_idx, current_data>>
    /\ UNCHANGED <<csv, started, events, abort, raised>>
    /\ UNCHANGED <<user_vars, sel_vars, sk_vars, ss_vars, dd_vars>>
    /\ UNCHANGED ask_vars

\* One iteration of `for row in rows`.
M_Row ==
    /\ pc = "rows"
    /\ row_idx < Len(table)
    /\ row_idx' = row_idx + 1
    /\ current_data' = current_data \o ExtractRow(table[row_idx + 1], in_year, target_dept)
    /\ UNCHANGED <<pc, table, csv, started, events, exc, abort, raised>>
    /\ UNCHANGED <<user_vars, sel_vars, sk_vars, ss_vars, dd_vars>>
    /\ UNCHANGED ask_vars

\* A plausible slip: the file is written whether or not a row was kept.
SaveWantedAlways(data) == TRUE

\* `if current_data:` -- a list is truthy when it is not empty.
SaveWanted(data) == data # <<>>

\* if current_data: write the file; else report that nothing was found.
M_Save ==
    /\ pc = "rows"
    /\ row_idx >= Len(table)
    /\ IF SaveWanted(current_data)
       THEN \E o \in {"ok", "error"} :
                IF o = "ok"
                THEN /\ csv' = <<[name |-> FileName(in_year, target_dept),
                                  rows |-> current_data]>>
                     /\ events' = Append(events, "csv")
                     /\ pc' = "finally"
                     /\ UNCHANGED exc
                ELSE Raise("save") /\ UNCHANGED <<csv, events>>
       ELSE pc' = "finally" /\ UNCHANGED <<csv, events, exc>>
    /\ UNCHANGED <<table, row_idx, current_data, started, abort, raised>>
    /\ UNCHANGED <<user_vars, sel_vars, sk_vars, ss_vars, dd_vars>>
    /\ UNCHANGED ask_vars

\* except Exception as e: print; driver.save_screenshot("fatal_error.png")
M_Handler ==
    /\ pc = "handler"
    /\ \E o \in {"ok", "error"} :
        /\ events' = Append(events, IF o = "ok" THEN "shot" ELSE "shot_failed")
        /\ raised' = (o = "error")
        /\ pc' = HandlerNext(o)
    /\ UNCHANGED <<started, exc, abort>>
    /\ UNCHANGED <<user_vars, sel_vars, data_vars, sk_vars, ss_vars, dd_vars>>
    /\ UNCHANGED ask_vars

\* finally: driver.quit()
M_Finally ==
    /\ pc = "finally"
    /\ \E o \in {"ok", "error"} :
        /\ events' = Append(events, "quit")
        /\ raised' = (raised \/ o = "error")
    /\ pc' = "exit"
    /\ UNCHANGED <<started, exc, abort>>
    /\ UNCHANGED <<user_vars, sel_vars, data_vars, sk_vars, ss_vars, dd_vars>>
    /\ UNCHANGED ask_vars

\* -------------------------------------------------------------- specifications
MaxRetriesChoices == 0..DefaultMaxRetries

SK_Init ==
    /\ sk_pc = "idle" /\ sk_max = 0 /\ sk_i = 0 /\ sk_attempts = 0
    /\ sk_writes = 0 /\ sk_field = "prev" /\ sk_last = "none"
    /\ sk_transient = TRUE /\ sk_result = "none"

SS_Init ==
    /\ ss_pc = "idle" /\ ss_max = 0 /\ ss_target = <<>> /\ ss_i = 0
    /\ ss_attempts = 0 /\ ss_opts = <<>> /\ ss_found = <<>>
    /\ ss_sel = <<>> /\ ss_selOk = FALSE /\ ss_result = "none"
    /\ ss_prior = "none"

DD_Init ==
    /\ dd_pc = "idle" /\ dd_poll = 0 /\ dd_opts = <<>> /\ dd_shown = <<>>
    /\ dd_selected = <<>> /\ dd_result = "none" /\ dd_trace = <<>>

M_Init ==
    /\ year_in = <<>> /\ in_year = <<>>
    /\ target_campus = <<>> /\ target_dept = <<>>
    /\ started = FALSE /\ year_ok = "none" /\ campus_ok = "none" /\ dept_ok = "none"
    /\ field_idx = 0 /\ field_bad = FALSE
    /\ table = <<>> /\ row_idx = 0 /\ current_data = <<>> /\ csv = <<>>
    /\ events = <<>> /\ exc = "none" /\ abort = "none" /\ raised = FALSE

ASK_Init == ask_pc = "idle" /\ ask_opts = <<>> /\ ask_val = <<>> /\ ask_ret = <<>>

\* main, from its first prompt.
Init == pc = "year" /\ M_Init /\ SK_Init /\ SS_Init /\ DD_Init /\ ASK_Init

\* safe_send_keys called on its own, with any max_retries.
InitSendKeys ==
    /\ pc = "helper" /\ M_Init /\ SS_Init /\ DD_Init /\ ASK_Init
    /\ \E m \in MaxRetriesChoices :
        /\ sk_pc = "loop" /\ sk_max = m /\ sk_i = 0 /\ sk_attempts = 0
        /\ sk_writes = 0 /\ sk_field = "prev" /\ sk_last = "none"
        /\ sk_transient = TRUE /\ sk_result = "none"

\* safe_select_by_text called on its own, with any target and max_retries.
InitSelect ==
    /\ pc = "helper" /\ M_Init /\ SK_Init /\ DD_Init /\ ASK_Init
    /\ \E m \in MaxRetriesChoices, t \in Targets :
        /\ ss_pc = "loop" /\ ss_max = m /\ ss_target = t /\ ss_i = 0
        /\ ss_attempts = 0 /\ ss_opts = <<>> /\ ss_found = <<>>
        /\ ss_sel = <<>> /\ ss_selOk = FALSE /\ ss_result = "none"
        /\ ss_prior = "none"

vars == <<sk_vars, ss_vars, dd_vars, main_vars, ask_vars>>

NextSendKeys ==
    \/ SK_Attempt /\ UNCHANGED <<ss_vars, dd_vars, main_vars, ask_vars>>
    \/ SK_Exhausted /\ UNCHANGED <<ss_vars, dd_vars, main_vars, ask_vars>>

NextSelect ==
    \/ SS_Read /\ UNCHANGED <<sk_vars, dd_vars, main_vars, ask_vars>>
    \/ SS_Select /\ UNCHANGED <<sk_vars, dd_vars, main_vars, ask_vars>>
    \/ SS_Sleep /\ UNCHANGED <<sk_vars, dd_vars, main_vars, ask_vars>>
    \/ SS_Exhausted /\ UNCHANGED <<sk_vars, dd_vars, main_vars, ask_vars>>

Next ==
    \/ M_YearPrompt
    \/ M_AskCampus
    \/ M_AskDept
    \/ M_StartBrowser
    \/ M_Login
    \/ M_Menu
    \/ M_Frames
    \/ M_YearCall
    \/ SK_Attempt /\ UNCHANGED <<ss_vars, dd_vars, main_vars, ask_vars>>
    \/ SK_Exhausted /\ UNCHANGED <<ss_vars, dd_vars, main_vars, ask_vars>>
    \/ M_YearRet
    \/ M_Campus
    \/ M_CampusRet
    \/ M_Dept
    \/ M_DeptRet
    \/ SS_Read /\ UNCHANGED <<sk_vars, dd_vars, main_vars, ask_vars>>
    \/ SS_Select /\ UNCHANGED <<sk_vars, dd_vars, main_vars, ask_vars>>
    \/ SS_Sleep /\ UNCHANGED <<sk_vars, dd_vars, main_vars, ask_vars>>
    \/ SS_Exhausted /\ UNCHANGED <<sk_vars, dd_vars, main_vars, ask_vars>>
    \/ M_Field
    \/ DD_Search /\ UNCHANGED <<sk_vars, ss_vars, main_vars, ask_vars>>
    \/ DD_Poll /\ UNCHANGED <<sk_vars, ss_vars, main_vars, ask_vars>>
    \/ DD_PollEnd /\ UNCHANGED <<sk_vars, ss_vars, main_vars, ask_vars>>
    \/ DD_Prompt /\ UNCHANGED <<sk_vars, ss_vars, main_vars, ask_vars>>
    \/ DD_Apply /\ UNCHANGED <<sk_vars, ss_vars, main_vars, ask_vars>>
    \/ M_FieldRet
    \/ M_Subject
    \/ M_Search
    \/ M_Parse
    \/ M_Row
    \/ M_Save
    \/ M_Handler
    \/ M_Finally

\* ask_user_selection called on its own, with any non-empty options_list.
InitAsk ==
    /\ pc = "helper" /\ M_Init /\ SK_Init /\ SS_Init /\ DD_Init
    /\ ask_pc = "prompt"
    /\ ask_opts \in (OptionLists \ {<<>>}) \cup {CAMPUS_OPTIONS, DEPT_OPTIONS}
    /\ ask_val = <<>>
    /\ ask_ret = <<>>

NextAsk == ASK_Input /\ UNCHANGED <<sk_vars, ss_vars, dd_vars, main_vars>>

\* One of the three loops on its own: safe_send_keys or safe_select_by_text
\* with any max_retries, or the polling loop of set_dropdown_field.
InitLoops ==
    /\ pc = "helper" /\ M_Init /\ ASK_Init
    /\ \/ /\ SS_Init /\ DD_Init
          /\ \E m \in MaxRetriesChoices :
              /\ sk_pc = "loop" /\ sk_max = m /\ sk_i = 0 /\ sk_attempts = 0
              /\ sk_writes = 0 /\ sk_field = "prev" /\ sk_last = "none"
              /\ sk_transient = TRUE /\ sk_result = "none"
       \/ /\ SK_Init /\ DD_Init
          /\ \E m \in MaxRetriesChoices, t \in Targets :
              /\ ss_pc = "loop" /\ ss_max = m /\ ss_target = t /\ ss_i = 0
              /\ ss_attempts = 0 /\ ss_opts = <<>> /\ ss_found = <<>>
              /\ ss_sel = <<>> /\ ss_selOk = FALSE /\ ss_result = "none"
              /\ ss_prior = "none"
       \/ /\ SK_Init /\ SS_Init
          /\ dd_pc = "poll" /\ dd_poll = 0 /\ dd_opts = <<>> /\ dd_shown = <<>>
          /\ dd_selected = <<>> /\ dd_result = "none"
          /\ dd_trace = <<"search", "poll">>

NextLoops ==
    \/ SK_Attempt /\ UNCHANGED <<ss_vars, dd_vars, main_vars, ask_vars>>
    \/ SK_Exhausted /\ UNCHANGED <<ss_vars, dd_vars, main_vars, ask_vars>>
    \/ SS_Read /\ UNCHANGED <<sk_vars, dd_vars, main_vars, ask_vars>>
    \/ SS_Select /\ UNCHANGED <<sk_vars, dd_vars, main_vars, ask_vars>>
    \/ SS_Sleep /\ UNCHANGED <<sk_vars, dd_vars, main_vars, ask_vars>>
    \/ SS_Exhausted /\ UNCHANGED <<sk_vars, dd_vars, main_vars, ask_vars>>
    \/ DD_Poll /\ UNCHANGED <<sk_vars, ss_vars, main_vars, ask_vars>>
    \/ DD_PollEnd /\ UNCHANGED <<sk_vars, ss_vars, main_vars, ask_vars>>

Spec == Init /\ [][Next]_vars
SpecAsk == InitAsk /\ [][NextAsk]_vars

\* The program is sequential and every wait and sleep in the loops is
\* bounded, so a loop that can take a step does take it.
SpecLoops == InitLoops /\ [][NextLoops]_vars /\ WF_vars(NextLoops)
SpecSendKeys == InitSendKeys /\ [][NextSendKeys]_vars
SpecSelect == InitSelect /\ [][NextSelect]_vars

\* ------------------------------------------------------------------- claims
Count(log, e) == Cardinality({k \in 1..Len(log) : log[k] = e})
Has(log, e) == \E k \in 1..Len(log) : log[k] = e

\* Positions of the options of a list whose display text, without half- and
\* full-width spaces, contains the target.
Qualifying(target_text, opts) ==
    {k \in 1..Len(opts) : Contains(StripSpaces(opts[k]), target_text)}

\* The latest attempt of the selector has read a list and has gone through
\* `if found_text`.
SS_AttemptOver == ss_opts # <<>> /\ ss_pc \in {"sleep", "done"}

\* C1: a select action is only ever issued for the text of an option of the
\* list read in that attempt whose text, stripped of half- and full-width
\* spaces, contains the target; hence none is issued when no option
\* qualifies.
C1_SelectOnlyQualifying ==
    ss_sel # <<>> =>
        /\ ss_opts # <<>>
        /\ \E k \in Qualifying(ss_target, ss_opts[1]) : ss_opts[1][k] = ss_sel[1]

\* C2: whenever the list read in an attempt holds several qualifying
\* options, the attempt issues the select for the one at the smallest
\* position.
C2_EarliestQualifyingSelected ==
    (SS_AttemptOver /\ Cardinality(Qualifying(ss_target, ss_opts[1])) >= 2) =>
        /\ ss_sel # <<>>
        /\ ss_sel[1] = ss_opts[1][MinOf(Qualifying(ss_target, ss_opts[1]))]

\* C3: safe_send_keys never lets an error out, and it returns False only
\* when max_retries attempts were made and none of them wrote the field.
C3_FalseOnlyWhenExhausted ==
    /\ sk_result # "raised"
    /\ sk_result = "false" =>
        /\ sk_attempts = sk_max
        /\ sk_writes = 0
        /\ sk_last # "ok"

\* All five attempts failed, not all of them with a stale reference or a
\* timeout, and the setter returned False.
C3_Witness ==
    /\ sk_result = "false"
    /\ sk_max = DefaultMaxRetries
    /\ sk_attempts = DefaultMaxRetries
    /\ ~sk_transient

\* C9: when an attempt succeeds after attempts that failed only with a
\* stale reference or a timeout, the setter returns True at once: the
\* attempts made are exactly the loop index of the success plus one, within
\* max_retries, and the field was written exactly once.
C9_SuccessAfterTransientFailures ==
    (sk_last = "ok" /\ sk_transient) =>
        /\ sk_pc = "done"
        /\ sk_result = "true"
        /\ sk_attempts = sk_i + 1
        /\ sk_attempts <= sk_max
        /\ sk_writes = 1
        /\ sk_field = "written"

\* Two transient failures, then success at the third attempt.
C9_Witness ==
    /\ sk_result = "true"
    /\ sk_attempts = 3
    /\ sk_transient
    /\ sk_writes = 1

\* The lists read before the latest attempt were just the "unspecified"
\* entry, which does not match, and the list read now holds a match; or the
\* first list read is the single "unspecified" entry and it matches.
C10_Scenario ==
    /\ SS_AttemptOver
    /\ Qualifying(ss_target, ss_opts[1]) # {}
    /\ \/ ss_prior = "unspec" /\ Qualifying(ss_target, <<Unspecified>>) = {}
       \/ ss_prior = "none" /\ ss_opts[1] = <<Unspecified>>

\* C10: every attempt works on the list it has read itself.  A select is
\* never issued for a text that is not in the list read in the same attempt;
\* and when a match first appears in the list read at attempt k, attempt k
\* issues the select for an option of that list and, the select completing,
\* the selector returns True at attempt k.
C10_SelectsFromCurrentRead ==
    /\ ss_sel # <<>> =>
          ss_opts # <<>> /\ ss_sel[1] \in Range(ss_opts[1])
    /\ C10_Scenario =>
          /\ ss_sel # <<>>
          /\ ss_sel[1] \in Range(ss_opts[1])
          /\ Contains(StripSpaces(ss_sel[1]), ss_target)
          /\ ss_selOk => (ss_result = "true" /\ ss_attempts = ss_i + 1)
          /\ ss_attempts <= ss_max

\* Position of the first occurrence of an event, 0 when it never occurred.
FirstAt(log, e) ==
    IF Has(log, e) THEN MinOf({k \in 1..Len(log) : log[k] = e}) ELSE 0

ShotTried == Has(events, "shot") \/ Has(events, "shot_failed")

\* C4: once the session has started, driver.quit() runs exactly once on
\* every way out of main, never more than once, and only as the last thing
\* the session does.
C4_TeardownExactlyOnce ==
    /\ Count(events, "quit") <= 1
    /\ Has(events, "quit") => (started /\ pc = "exit" /\ events[Len(events)] = "quit")
    /\ (pc = "exit" /\ started) => Count(events, "quit") = 1

\* The screenshot itself raised inside the top-level handler, and the
\* session was still torn down.
C4_Witness ==
    /\ pc = "exit"
    /\ Has(events, "shot_failed")
    /\ raised
    /\ Count(events, "quit") = 1

\* C5 as stated: whatever step of the session raised, menu navigation
\* included, the run ends with a screenshot taken before the teardown.  Even
\* with a screenshot call that raised counted as taken, this fails.
C5_EveryExceptionScreenshot ==
    (pc = "exit" /\ exc # "none") =>
        /\ ShotTried
        /\ Has(events, "quit")

\* C5, amended: an exception of class Exception that leaves a step other
\* than menu navigation reaches the top-level handler, which calls
\* driver.save_screenshot exactly once, before the session is torn down.
\* The screenshot is captured when that call completes; when the call itself
\* raises, no screenshot is captured and the exception leaves main after the
\* teardown.  An exception in menu navigation is caught by the menu's own
\* handler, and the run ends with the teardown and no screenshot call.  The
\* screenshot call never comes after the teardown, nor without such an
\* exception.
C5_TopLevelHandler ==
    /\ (pc = "exit" /\ exc \notin {"none", "menu"}) =>
          /\ Count(events, "shot") + Count(events, "shot_failed") = 1
          /\ Count(events, "quit") = 1
          /\ Has(events, "shot_failed") => raised
    /\ (pc = "exit" /\ exc = "menu") =>
          /\ ~ShotTried
          /\ Count(events, "quit") = 1
    /\ \A i, j \in 1..Len(events) :
          (events[i] \in {"shot", "shot_failed"} /\ events[j] = "quit") => i < j
    /\ ShotTried => exc \notin {"none", "menu"}
    /\ pc = "handler" => exc \notin {"none", "menu"}

\* Writing the output file raised: screenshot, then teardown.
C5_Witness ==
    /\ pc = "exit"
    /\ exc = "save"
    /\ Has(events, "shot")
    /\ FirstAt(events, "shot") < FirstAt(events, "quit")

\* The rows of a table that are kept: at least 7 cells and a subject cell
\* that is not empty once trimmed.
KeptRows(rows) ==
    SelectSeq(rows, LAMBDA cells : Len(cells) >= 7 /\ Strip(cells[6]) # <<>>)

\* C6: after any number of rows, current_data holds exactly one record for
\* each row so far that has at least 7 cells and a non-empty trimmed
\* subject, in row order, duplicates included; the other rows leave nothing.
C6_RowsFiltered ==
    pc = "rows" =>
        LET kept == KeptRows(SubSeq(table, 1, row_idx))
        IN  /\ Len(current_data) = Len(kept)
            /\ \A k \in 1..Len(kept) :
                  /\ current_data[k].subject = Strip(kept[k][6])
                  /\ current_data[k].teacher = Strip(kept[k][7])

\* A table with a row whose subject is only whitespace and a row that is
\* kept, both with 7 cells.
C6_Witness ==
    /\ pc = "rows"
    /\ row_idx = Len(table)
    /\ Len(table) = 2
    /\ Len(current_data) = 1
    /\ \E k \in 1..2 :
          Len(table[k]) >= 7 /\ table[k][6] # <<>> /\ Strip(table[k][6]) = <<>>

FourDigits(s) == Len(s) = 4 /\ \A k \in 1..4 : s[k] \in DOMAIN DigitVal

\* The prompt loop was left with a year: main is past it, and not because
\* input() raised at one of the prompts before the browser is started.
YearInEffect == pc \notin {"year", "helper", "exit"} \/ started

\* C7: the prompt loop is left only with a 4-digit year: the input itself
\* when it is 4 digits, "2025" when it is empty; while the prompt is still
\* asking, the last input was neither.  The only other way out of the loop is
\* input() raising, which ends main with no year used.
C7_YearIsFourDigits ==
    /\ [](YearInEffect =>
            /\ year_in # <<>>
            /\ FourDigits(in_year)
            /\ \/ FourDigits(year_in[1]) /\ in_year = year_in[1]
               \/ year_in[1] = <<>> /\ in_year = <<"2", "0", "2", "5">>)
    /\ []((pc = "year" /\ year_in # <<>>) =>
            (year_in[1] # <<>> /\ ~FourDigits(year_in[1])))
    /\ [][pc = "year" =>
            \/ pc' = "year" /\ year_in' # <<>> /\ ~FourDigits(year_in'[1])
                            /\ year_in'[1] # <<>>
            \/ pc' = "campus_ask" /\ year_in' # <<>> /\ FourDigits(in_year')
                  /\ \/ FourDigits(year_in'[1]) /\ in_year' = year_in'[1]
                     \/ year_in'[1] = <<>> /\ in_year' = <<"2", "0", "2", "5">>
            \/ pc' = "exit" /\ raised' /\ ~started' /\ events' = <<>>
                  /\ UNCHANGED <<year_in, in_year>>
         ]_vars

\* A 4-digit input other than the default was taken as given.
C7_Witness ==
    /\ pc = "campus_ask"
    /\ year_in # <<>>
    /\ in_year = year_in[1]
    /\ in_year # DefaultYear

\* C8: a failed year input ends the run before anything else is touched:
\* no selector or prompter call, no search, no file.  A run that set the
\* year and met no exception always triggers the search, whatever the
\* campus, department and dynamic-field steps returned; none of them takes
\* an early return.
C8_YearMandatoryOthersOptional ==
    /\ year_ok = "false" =>
          /\ pc \in {"finally", "exit"}
          /\ abort = "year"
          /\ \A e \in {"campus", "dept", "field", "search", "csv"} : ~Has(events, e)
          /\ csv = <<>>
    /\ abort \in {"none", "menu", "year"}
    /\ (campus_ok = "false" \/ dept_ok = "false" \/ field_bad) => abort = "none"
    /\ (pc = "exit" /\ year_ok = "true" /\ exc = "none") => Has(events, "search")

\* Campus and department selection both failed, a dynamic field was skipped
\* or failed, and the search was triggered all the same.
C8_Witness ==
    /\ campus_ok = "false"
    /\ dept_ok = "false"
    /\ field_bad
    /\ Has(events, "search")

\* The select action of the latest attempt was issued and raised.
SS_SelectFailed == ss_sel # <<>> /\ ~ss_selOk

\* C11: for every target, the empty one included, and every list, options
\* with an empty text included: an attempt whose list holds a qualifying
\* option, and whose select action does not fail, selects the first
\* qualifying option and the selector returns True.
C11_FirstMatchSelectedAndTrue ==
    (SS_AttemptOver /\ Qualifying(ss_target, ss_opts[1]) # {} /\ ~SS_SelectFailed) =>
        /\ ss_sel = <<ss_opts[1][MinOf(Qualifying(ss_target, ss_opts[1]))]>>
        /\ ss_selOk
        /\ ss_result = "true"

\* The phases of set_dropdown_field, in the order of the code.
DD_Phases == <<"search", "poll", "prompt", "apply">>

\* C12: a run of set_dropdown_field enters its phases in the order search,
\* poll, prompt, apply, each at most once and none skipped; a run that
\* applied (or failed to apply) a selection went through all four; a search
\* that timed out ends the run at once, with no prompt and no selection.
C12_PhasesInOrder ==
    /\ Len(dd_trace) <= Len(DD_Phases)
    /\ dd_trace = SubSeq(DD_Phases, 1, Len(dd_trace))
    /\ dd_pc \in {"search", "poll", "prompt", "apply"} =>
          (dd_trace # <<>> /\ dd_trace[Len(dd_trace)] = dd_pc)
    /\ dd_result \in {"applied", "apply_failed"} =>
          (dd_trace = DD_Phases /\ dd_shown # <<>> /\ dd_selected # <<>>)
    /\ dd_result = "skipped" =>
          /\ dd_pc = "done"
          /\ dd_trace = <<"search">>
          /\ dd_shown = <<>>
          /\ dd_selected = <<>>

\* A run of the prompter for the second dynamic field went through the four
\* phases and applied the operator's choice.
C12_Witness ==
    /\ field_idx = 1
    /\ dd_pc = "done"
    /\ dd_result = "applied"
    /\ dd_trace = DD_Phases

\* C13: the polling loop of set_dropdown_field makes at most 10 iterations;
\* it goes on only after a read that failed or gave at most one option, and
\* leaves before the tenth iteration is over only on a read of more than one
\* option.  Whichever way it ends, the next thing is the prompt, which shows
\* the options last read, or the single "unspecified" entry when no read
\* ever gave an option.
C13_PollThenPrompt ==
    /\ [](dd_pc = "poll" => (dd_poll <= 10 /\ Len(dd_opts) <= 1))
    /\ [](dd_pc = "prompt" => (dd_shown = <<dd_opts>> /\ dd_opts # <<>>))
    /\ [][dd_pc = "poll" =>
            /\ dd_pc' \in {"poll", "prompt"}
            /\ dd_pc' = "poll" => dd_poll' = dd_poll + 1
            /\ (dd_pc' = "prompt" /\ dd_poll < 10) => Len(dd_shown'[1]) > 1
            /\ (dd_pc' = "prompt" /\ dd_poll = 10) =>
                  dd_shown'[1] = IF dd_opts = <<>> THEN <<Unspecified>> ELSE dd_opts
         ]_vars

\* Ten iterations were made and no read ever gave an option: the loop is
\* over and the fallback is about to be presented.
C13_Witness ==
    /\ dd_pc = "poll"
    /\ dd_poll = 10
    /\ dd_opts = <<>>

\* The inputs of the prompt that are integers, with the integer each one
\* is; every other non-empty input is not a number.
InputInteger ==
    (<<"0">> :> 0) @@ (<<"1">> :> 1) @@ (<<"2">> :> 2) @@ (<<"3">> :> 3)
    @@ (<<"-", "1">> :> 0 - 1) @@ (<<"+", "1">> :> 1) @@ (<<SP, "1">> :> 1)
    @@ (<<"1", "0">> :> 10)

\* C14: on a non-empty list, the operator choice returns the first option
\* on an empty input and the option at index i on an input that is an
\* integer i within the list; every other input (not a number, negative,
\* too large) returns nothing and the prompt asks again.  What is returned
\* is always an option of the list presented.
C14_ChoiceFromList ==
    /\ ask_ret # <<>> => (ask_pc = "done" /\ ask_ret[1] \in Range(ask_opts))
    /\ ask_pc = "done" => (ask_ret # <<>> /\ ask_val # <<>>)
    /\ ask_val # <<>> =>
          LET val == ask_val[1]
              n == Len(ask_opts)
          IN  IF val = <<>>
              THEN ask_pc = "done" /\ ask_ret = <<ask_opts[1]>>
              ELSE IF val \in DOMAIN InputInteger /\ 0 <= InputInteger[val]
                                                  /\ InputInteger[val] < n
              THEN ask_pc = "done" /\ ask_ret = <<ask_opts[InputInteger[val] + 1]>>
              ELSE ask_pc \in {"prompt", "raised"} /\ ask_ret = <<>>

\* A negative index was typed on a list of two options and the prompt is
\* still asking.
C14_Witness ==
    /\ ask_pc = "prompt"
    /\ ask_val = <<<<"-", "1">>>>
    /\ Len(ask_opts) = 2
    /\ ask_ret = <<>>

\* C15 as stated: no outcome of the prompter ends the run.
C15_NoOutcomeFatal ==
    /\ dd_result # "raised"
    /\ exc # "field"

\* C15, amended: a dropdown that never appears (timeout), poll reads that
\* fail and an apply that fails all let the prompter return normally, and
\* main goes on to the next of the four fields and, after the fourth, to the
\* subject prompt and the search.  The prompter lets an exception out only
\* from its wait for the element (anything but a timeout) and from the
\* operator prompt; that exception goes to the top-level handler of main.
C15_HandledOutcomesNonFatal ==
    /\ [](dd_result = "raised" =>
            (dd_pc = "done" /\ dd_trace \in {<<"search">>, <<"search", "poll", "prompt">>}))
    /\ [](pc \in {"subject", "search", "parse", "rows"} =>
            (field_idx = 4 /\ Count(events, "field") = 4))
    /\ []((pc = "exit" /\ exc = "none" /\ abort = "none" /\ started) =>
            Has(events, "search"))
    /\ [][dd_pc = "poll" => dd_result' = "none"]_vars
    /\ [][dd_pc = "apply" => (dd_pc' = "done" /\ dd_result' \in {"applied", "apply_failed"})]_vars
    /\ [][(pc = "field_wait" /\ dd_pc = "done") =>
            IF dd_result \in {"skipped", "applied", "apply_failed"}
            THEN pc' = "fields" /\ field_idx' = field_idx + 1 /\ exc' = "none"
            ELSE dd_result = "raised" /\ pc' = "handler" /\ exc' = "field"
         ]_vars
    /\ [][pc = "fields" =>
            pc' = IF field_idx < 4 THEN "field_wait" ELSE "subject"]_vars

\* All four prompters returned, one of them skipped or failing to apply,
\* and the search was triggered.
C15_Witness ==
    /\ field_bad
    /\ field_idx = 4
    /\ Count(events, "field") = 4
    /\ events[Len(events)] = "search"

\* C16: safe_select_by_text never lets an exception out.  It returns True
\* exactly when an attempt found a matching option and the select action
\* issued for it completed, which ends the function at that attempt; it
\* returns False exactly when max_retries attempts were made and none of
\* them did: the element or its options could not be read, the scan gave
\* nothing to select, or the select action raised.
C16_TrueIffSelected ==
    /\ ss_result \in {"none", "true", "false"}
    /\ ss_pc = "done" <=> ss_result \in {"true", "false"}
    /\ ss_result = "true" <=> ss_selOk
    /\ ss_selOk =>
          /\ ss_opts # <<>>
          /\ Qualifying(ss_target, ss_opts[1]) # {}
          /\ ss_sel # <<>>
          /\ ss_sel = ss_found
          /\ ss_attempts <= ss_max
    /\ ss_result = "false" => (ss_attempts = ss_max /\ ss_i = ss_max)
    /\ ss_attempts \in {ss_i, ss_i + 1}

\* Five attempts were made, a match was found on the way and its select
\* action raised, and the selector returned False.
C16_Witness ==
    /\ ss_result = "false"
    /\ ss_attempts = DefaultMaxRetries
    /\ Truthy(ss_found)

\* C17: whatever the page does, safe_send_keys and safe_select_by_text
\* make at most max_retries attempts and then return, and the polling loop of
\* set_dropdown_field makes at most 10 iterations and then ends: each loop,
\* once entered, is left.
C17_LoopsBoundedAndEnd ==
    /\ [](sk_attempts <= sk_max /\ sk_max <= 5)
    /\ [](ss_attempts <= ss_max /\ ss_max <= 5)
    /\ [](dd_poll <= 10)
    /\ (sk_pc = "loop") ~> (sk_pc = "done" /\ sk_result \in {"true", "false"})
    /\ (ss_pc \in {"loop", "select", "sleep"}) ~>
           (ss_pc = "done" /\ ss_result \in {"true", "false"})
    /\ (dd_pc = "poll") ~> (dd_pc = "prompt")

\* The selector read the options in each of five attempts, never selected,
\* and returned after the fifth.
C17_Witness ==
    /\ ss_pc = "done"
    /\ ss_result = "false"
    /\ ss_attempts = 5
    /\ ss_i = 5
    /\ ss_prior # "none"

\* C18: the output file is written at most once, after the search was
\* triggered and every row of the parsed table was gone through, and only
\* when a row was collected; it holds one data row per collected record and
\* its name is syllabus_<year>_<department without "/" and half-width
\* spaces>_search.csv.  A run that returned early, or whose top-level handler
\* fired before the save, or that collected nothing, writes no file.
C18_OutputWrittenOnceAfterSearch ==
    /\ Count(events, "csv") <= 1
    /\ Has(events, "csv") <=> csv # <<>>
    /\ csv # <<>> =>
          /\ pc \in {"finally", "exit"}
          /\ exc = "none" /\ abort = "none"
          /\ Has(events, "search")
          /\ FirstAt(events, "search") < FirstAt(events, "csv")
          /\ row_idx = Len(table)
          /\ current_data # <<>>
          /\ csv[1].rows = current_data
          /\ Len(csv[1].rows) = Len(KeptRows(table))
          /\ csv[1].name = <<"syllabus_">> \o in_year \o <<"_">>
                 \o SelectSeq(target_dept, LAMBDA c : c # "/" /\ c # SP)
                 \o <<"_search.csv">>
    /\ (abort # "none" \/ exc \notin {"none", "save"}) => csv = <<>>
    /\ (pc \in {"finally", "exit"} /\ current_data = <<>>) => csv = <<>>

\* Two rows were parsed, one of them disqualified, and the file was written
\* with the one record collected.
C18_Witness ==
    /\ pc = "exit"
    /\ csv # <<>>
    /\ Len(table) = 2
    /\ Len(csv[1].rows) = 1
    /\ target_dept = CompSci

\* C19: safe_select_by_text is called on the campus dropdown only when the
\* campus chosen is not "unspecified", and on the department dropdown only
\* when the department chosen is not "unspecified", once each at most; with
\* "unspecified" the control is never touched.  The pause after the
\* department selection is made exactly when that selection returned True.
C19_UnspecifiedSkipsSelector ==
    /\ Has(events, "campus") => target_campus # Unspecified
    /\ Has(events, "dept") => target_dept # Unspecified
    /\ Count(events, "campus") <= 1 /\ Count(events, "dept") <= 1
    /\ campus_ok # "none" => Has(events, "campus")
    /\ dept_ok # "none" => Has(events, "dept")
    /\ pc \in {"campus_wait", "dept_wait"} <=> ss_pc # "idle"
    /\ pc = "campus_wait" => (ss_target = target_campus /\ target_campus # Unspecified)
    /\ pc = "dept_wait" => (ss_target = target_dept /\ target_dept # Unspecified)
    /\ Has(events, "dept_pause") <=> dept_ok = "true"
    /\ Count(events, "dept_pause") <= 1

\* Campus left "unspecified" and never touched; the department selection was
\* tried and failed, so there was no pause, and the run went on to the search.
C19_Witness ==
    /\ target_campus = Unspecified
    /\ ~Has(events, "campus")
    /\ target_dept = CompSci
    /\ dept_ok = "false"
    /\ ~Has(events, "dept_pause")
    /\ Has(events, "search")

====
